---- MODULE Spec2Model ----
(***************************************************************************)
(* Model of the certiflow worker: the PDF text extractor (PDFService),     *)
(* the structured-data extractor (OpenAIService), the report renderer      *)
(* (ExcelService) and the Orchestrator that composes them.                 *)
(*                                                                         *)
(* Strings are sequences of one-character tokens.  A page marker           *)
(* "--- Pagina n ---" is one token "Pn" (it starts and ends with a         *)
(* non-whitespace character, so str.strip() never cuts into it).           *)
(***************************************************************************)
EXTENDS Integers, Sequences, FiniteSets, TLC

\* ---------------------------------------------------------------- bounds
MaxPages == 2
MaxTextLen == 2
MaxCalls == 2
MaxElapsed == 1
MaxRenders == 2
MaxClock == 1
MaxInvocations == 2
MaxTextPages == 1

\* ------------------------------------------------------- program constants
openai_model == "gpt-4o-mini"
NoneValue == "None"

\* --------------------------------------------------------------- strings
Alphabet == {"a", " ", "\n"}
Whitespace == {" ", "\n"}

PageToken(n) == <<"P1", "P2", "P3", "P4", "P5">>[n]

\* f"\n--- Pagina {page_num + 1} ---\n"
PageMarker(n) == <<"\n", PageToken(n), "\n">>

RECURSIVE lstrip(_)
lstrip(s) ==
    IF s = <<>> THEN <<>>
    ELSE IF Head(s) \in Whitespace THEN lstrip(Tail(s)) ELSE s

RECURSIVE rstrip(_)
rstrip(s) ==
    IF s = <<>> THEN <<>>
    ELSE IF s[Len(s)] \in Whitespace THEN rstrip(SubSeq(s, 1, Len(s) - 1)) ELSE s

\* str.strip()
strip(s) == rstrip(lstrip(s))

\* ------------------------------------------------------------- documents
Texts == UNION {[1..n -> Alphabet] : n \in 0..MaxTextLen}

\* page.extract_text(): raises, or returns a (possibly empty) string
PageOutcomes ==
    {[raises |-> TRUE, text |-> <<>>]} \cup {[raises |-> FALSE, text |-> t] : t \in Texts}

PageLists == UNION {[1..n -> PageOutcomes] : n \in 0..MaxPages}

\* open: what PyPDF2.PdfReader(BytesIO(bytes)) does with the bytes
\*   "PdfReadError"  the constructor raises PyPDF2.errors.PdfReadError
\*   "Exception"     the constructor raises another exception
\*   "ok"            the constructor returns a reader
\* pages_ok: FALSE when the reader opens but reading its page list raises
\*   (an encrypted file)
Documents ==
    {[open |-> o, pages_ok |-> FALSE, pages |-> <<>>] : o \in {"PdfReadError", "Exception", "ok"}}
    \cup {[open |-> "ok", pages_ok |-> TRUE, pages |-> p] : p \in PageLists}

\* the documents handed to process_file: not a PDF, unreadable, encrypted,
\* without pages, with a page that cannot be read, with an empty, a blank and
\* a visible page
CallDocuments ==
    {[open |-> "PdfReadError", pages_ok |-> FALSE, pages |-> <<>>],
     [open |-> "Exception", pages_ok |-> FALSE, pages |-> <<>>],
     [open |-> "ok", pages_ok |-> FALSE, pages |-> <<>>],
     [open |-> "ok", pages_ok |-> TRUE, pages |-> <<>>],
     [open |-> "ok", pages_ok |-> TRUE, pages |-> <<[raises |-> TRUE, text |-> <<>>]>>],
     [open |-> "ok", pages_ok |-> TRUE, pages |-> <<[raises |-> FALSE, text |-> <<>>]>>],
     [open |-> "ok", pages_ok |-> TRUE, pages |-> <<[raises |-> FALSE, text |-> <<" ">>]>>],
     [open |-> "ok", pages_ok |-> TRUE, pages |-> <<[raises |-> FALSE, text |-> <<"a">>]>>]}

\* ------------------------------------------------------------ exceptions
NoError == [kind |-> "none", message |-> "none"]

PDFProcessingError(m) == [kind |-> "PDFProcessingError", message |-> m]
OpenAIError(m) == [kind |-> "OpenAIError", message |-> m]
ExcelGenerationError(m) == [kind |-> "ExcelGenerationError", message |-> m]
TemplateNotFoundError(m) == [kind |-> "TemplateNotFoundError", message |-> m]

\* ------------------------------------------------------------ PDFService
\* the page loop of extract_text_from_pdf; page_num is 0-based as in enumerate()
RECURSIVE ExtractPagesStopAtFailure(_, _, _)
ExtractPagesStopAtFailure(pages, page_num, extracted_text) ==
    IF page_num >= Len(pages) THEN extracted_text
    ELSE LET page == pages[page_num + 1]
         IN  IF page.raises THEN extracted_text
             ELSE ExtractPagesStopAtFailure(pages, page_num + 1,
                      IF page.text # <<>>
                      THEN extracted_text \o PageMarker(page_num + 1) \o page.text
                      ELSE extracted_text)

RECURSIVE ExtractPages(_, _, _)
ExtractPages(pages, page_num, extracted_text) ==
    IF page_num >= Len(pages) THEN extracted_text
    ELSE LET page == pages[page_num + 1]
         IN  ExtractPages(pages, page_num + 1,
                 IF ~page.raises /\ page.text # <<>>
                 THEN extracted_text \o PageMarker(page_num + 1) \o page.text
                 ELSE extracted_text)

TextResult(t) == [ok |-> TRUE, text |-> t, error |-> NoError]
TextFailure(e) == [ok |-> FALSE, text |-> <<>>, error |-> e]

extract_text_from_pdf_empty_success(pdf_content) ==
    IF pdf_content.open = "PdfReadError"
    THEN TextFailure(PDFProcessingError("Error leyendo el archivo PDF"))
    ELSE IF pdf_content.open = "Exception" \/ ~pdf_content.pages_ok
    THEN TextFailure(PDFProcessingError("Error procesando PDF"))
    ELSE TextResult(strip(ExtractPages(pdf_content.pages, 0, <<>>)))

extract_text_from_pdf(pdf_content) ==
    IF pdf_content.open = "PdfReadError"
    THEN TextFailure(PDFProcessingError("Error leyendo el archivo PDF"))
    ELSE IF pdf_content.open = "Exception" \/ ~pdf_content.pages_ok
    THEN TextFailure(PDFProcessingError("Error procesando PDF"))
    ELSE IF Len(pdf_content.pages) = 0
    THEN TextFailure(PDFProcessingError("Error procesando PDF: El PDF no contiene paginas"))
    ELSE LET extracted_text == ExtractPages(pdf_content.pages, 0, <<>>)
         IN  IF strip(extracted_text) = <<>>
             THEN TextFailure(PDFProcessingError("Error procesando PDF: No se pudo extraer texto del PDF"))
             ELSE TextResult(strip(extracted_text))

validate_pdf(pdf_content) == pdf_content.open = "ok"

\* ------------------------------------------------------------ JSON values
\* a JSON value: type is "null", "str", "num", "list" or "dict"; items holds
\* the <<key, value>> pairs of a dict in insertion order (a list uses key "")
JNull == [type |-> "null", str |-> "", num |-> 0, items |-> <<>>]
JStr(s) == [type |-> "str", str |-> s, num |-> 0, items |-> <<>>]
JNum(n) == [type |-> "num", str |-> "", num |-> n, items |-> <<>>]
JList(vs) == [type |-> "list", str |-> "", num |-> 0, items |-> vs]
JDict(kvs) == [type |-> "dict", str |-> "", num |-> 0, items |-> kvs]

Keys(d) == {d.items[i][1] : i \in DOMAIN d.items}

\* d[key], for a key of d
GetItem(d, key) == d.items[CHOOSE i \in DOMAIN d.items : d.items[i][1] = key][2]

\* d[key] = value on a dict: replaces in place, or appends
SetItem(d, key, value) ==
    IF key \in Keys(d)
    THEN JDict([i \in DOMAIN d.items |->
                   IF d.items[i][1] = key THEN <<key, value>> ELSE d.items[i]])
    ELSE JDict(Append(d.items, <<key, value>>))

\* ---------------------------------------------------------- OpenAIService
\* what the model can put at the root of its JSON answer
JsonRoots ==
    { JDict(<<>>),
      JDict(<< <<"nombre", JStr("Ana")>> >>),
      JDict(<< <<"_metadata", JStr("fake")>>, <<"edad", JNum(30)>> >>),
      JList(<< <<"", JNum(1)>> >>),
      JStr("Ana"),
      JNum(7),
      JNull }

\* one request to client.chat.completions.create: it raises (network error,
\* timeout, API error) or answers with a content string that json.loads
\* accepts (json_ok, value) or rejects
Replies ==
    {[raises |-> TRUE, json_ok |-> FALSE, value |-> JNull, tokens |-> NoneValue]}
    \cup {[raises |-> FALSE, json_ok |-> FALSE, value |-> JNull, tokens |-> NoneValue]}
    \cup {[raises |-> FALSE, json_ok |-> TRUE, value |-> v, tokens |-> "120"] : v \in JsonRoots}
    \cup {[raises |-> FALSE, json_ok |-> TRUE, value |-> JDict(<<>>), tokens |-> NoneValue]}

DataResult(d) == [ok |-> TRUE, data |-> d, error |-> NoError]
DataFailure(e) == [ok |-> FALSE, data |-> JNull, error |-> e]

Metadata(processing_time, tokens) ==
    JDict(<< <<"processing_time", JNum(processing_time)>>,
             <<"model_used", JStr(openai_model)>>,
             <<"tokens_used", IF tokens = NoneValue THEN JNull ELSE JStr(tokens)>> >>)

\* extract_structured_data keeping a '_metadata' entry the model sent
extract_structured_data_setdefault(text, reply, processing_time) ==
    IF reply.raises
    THEN DataFailure(OpenAIError("Error comunicandose con OpenAI"))
    ELSE IF ~reply.json_ok
    THEN DataFailure(OpenAIError("Respuesta invalida de OpenAI"))
    ELSE IF reply.value.type # "dict"
    THEN DataFailure(OpenAIError("Error comunicandose con OpenAI"))
    ELSE IF "_metadata" \in Keys(reply.value)
    THEN DataResult(reply.value)
    ELSE DataResult(SetItem(reply.value, "_metadata", Metadata(processing_time, reply.tokens)))

\* extract_structured_data without the final 'except Exception': the
\* TypeError of the item assignment on a root that is no mapping escapes
extract_structured_data_uncaught(text, reply, processing_time) ==
    IF reply.raises
    THEN DataFailure(OpenAIError("Error comunicandose con OpenAI"))
    ELSE IF ~reply.json_ok
    THEN DataFailure(OpenAIError("Respuesta invalida de OpenAI"))
    ELSE IF reply.value.type # "dict"
    THEN DataFailure([kind |-> "TypeError", message |-> "item assignment"])
    ELSE DataResult(SetItem(reply.value, "_metadata", Metadata(processing_time, reply.tokens)))

\* extract_structured_data attaching the metadata only to a mapping and
\* returning any other parsed root as it is
extract_structured_data_any_root(text, reply, processing_time) ==
    IF reply.raises
    THEN DataFailure(OpenAIError("Error comunicandose con OpenAI"))
    ELSE IF ~reply.json_ok
    THEN DataFailure(OpenAIError("Respuesta invalida de OpenAI"))
    ELSE IF reply.value.type # "dict"
    THEN DataResult(reply.value)
    ELSE DataResult(SetItem(reply.value, "_metadata", Metadata(processing_time, reply.tokens)))

extract_structured_data(text, reply, processing_time) ==
    IF reply.raises
    THEN DataFailure(OpenAIError("Error comunicandose con OpenAI"))
    ELSE IF ~reply.json_ok
    THEN DataFailure(OpenAIError("Respuesta invalida de OpenAI"))
    ELSE IF reply.value.type # "dict"
    THEN DataFailure(OpenAIError("Error comunicandose con OpenAI"))
    ELSE DataResult(SetItem(reply.value, "_metadata", Metadata(processing_time, reply.tokens)))

\* ----------------------------------------------------------- ExcelService
\* the keys k of the records used here for which k.startswith("_")
UnderscoreKeys == {"_metadata", "_id"}
startswith_underscore(key) == key \in UnderscoreKeys

RECURSIVE PyRepr(_)
RECURSIVE JoinRepr(_, _, _)
\* repr(value) of a parsed JSON value
PyRepr(v) ==
    CASE v.type = "null" -> "None"
      [] v.type = "str" -> "'" \o v.str \o "'"
      [] v.type = "num" -> ToString(v.num)
      [] v.type = "list" -> "[" \o JoinRepr(v.items, 1, FALSE) \o "]"
      [] v.type = "dict" -> "{" \o JoinRepr(v.items, 1, TRUE) \o "}"

JoinRepr(items, i, with_keys) ==
    IF i > Len(items) THEN ""
    ELSE (IF i > 1 THEN ", " ELSE "")
         \o (IF with_keys THEN "'" \o items[i][1] \o "': " ELSE "")
         \o PyRepr(items[i][2])
         \o JoinRepr(items, i + 1, with_keys)

\* str(value)
PyStr(v) == IF v.type = "str" THEN v.str ELSE PyRepr(v)

\* type(value).__name__
TypeName(v) ==
    CASE v.type = "null" -> "NoneType"
      [] v.type = "str" -> "str"
      [] v.type = "num" -> "int"
      [] v.type = "list" -> "list"
      [] v.type = "dict" -> "dict"

\* bool(value)
Truthy(v) ==
    CASE v.type = "null" -> FALSE
      [] v.type = "str" -> v.str # ""
      [] v.type = "num" -> v.num # 0
      [] v.type = "list" -> v.items # <<>>
      [] v.type = "dict" -> v.items # <<>>

\* a worksheet is a function from <<row, column>> to the cell's value
EmptySheet == [p \in {} |-> ""]

\* worksheet.cell(row=row, column=column, value=value)
SetCell(ws, row, column, value) ==
    [p \in DOMAIN ws \cup {<<row, column>>} |->
        IF p = <<row, column>> THEN value ELSE ws[p]]

\* worksheet.cell(row=row, column=column).value
CellValue(ws, row, column) ==
    IF <<row, column>> \in DOMAIN ws THEN ws[<<row, column>>] ELSE NoneValue

HeaderCells == {"Campo", "Dato", "Key"}

_create_default_workbook ==
    [sheetnames |-> <<"Datos Extraidos">>,
     active |-> "Datos Extraidos",
     sheets |-> [n \in {"Datos Extraidos"} |->
                   SetCell(SetCell(SetCell(SetCell(EmptySheet,
                       1, 1, "Campo"), 1, 2, "Valor"), 1, 3, "Tipo"), 1, 4, "Confianza")]]

\* the templates directory: name -> the workbook load_workbook returns, or a
\* file load_workbook rejects
templates_dir ==
    [n \in {"datos", "plain", "corrupt"} |->
        CASE n = "datos" ->
               [loadable |-> TRUE,
                workbook |-> [sheetnames |-> <<"Portada", "Datos">>,
                              active |-> "Portada",
                              sheets |-> [m \in {"Portada", "Datos"} |->
                                  IF m = "Datos"
                                  THEN SetCell(SetCell(EmptySheet, 1, 1, "Campo"), 1, 2, "Valor")
                                  ELSE SetCell(EmptySheet, 1, 1, "Certiflow")]]]
          [] n = "plain" ->
               [loadable |-> TRUE,
                workbook |-> [sheetnames |-> <<"Sheet1">>,
                              active |-> "Sheet1",
                              sheets |-> [m \in {"Sheet1"} |->
                                  SetCell(SetCell(EmptySheet, 1, 1, "Nombre"), 1, 2, "Dato")]]]
          [] n = "corrupt" ->
               [loadable |-> FALSE,
                workbook |-> [sheetnames |-> <<>>, active |-> "", sheets |-> <<>>]]]

NoWorkbook == [sheetnames |-> <<>>, active |-> "", sheets |-> <<>>]

Loaded(wb) == [ok |-> TRUE, workbook |-> wb, error |-> NoError]
NotLoaded(e) == [ok |-> FALSE, workbook |-> NoWorkbook, error |-> e]

_load_template(template_name) ==
    IF template_name \notin DOMAIN templates_dir
    THEN NotLoaded(TemplateNotFoundError("Plantilla no encontrada"))
    ELSE IF ~templates_dir[template_name].loadable
    THEN NotLoaded(ExcelGenerationError("Error cargando plantilla"))
    ELSE Loaded(templates_dir[template_name].workbook)

RECURSIVE AddMetadataRows(_, _, _)
AddMetadataRows(ws, items, i) ==
    IF i > Len(items) THEN ws
    ELSE AddMetadataRows(
             SetCell(SetCell(ws, i + 1, 5, items[i][1]), i + 1, 6, PyStr(items[i][2])),
             items, i + 1)

RECURSIVE AddMetadataRowsAtTop(_, _, _)
AddMetadataRowsAtTop(ws, items, i) ==
    IF i > Len(items) THEN ws
    ELSE AddMetadataRowsAtTop(
             SetCell(SetCell(ws, i + 1, 1, items[i][1]), i + 1, 2, PyStr(items[i][2])),
             items, i + 1)

\* _add_metadata writing the metadata block into the first two columns
_add_metadata_at_top(ws, metadata) ==
    IF ~Truthy(metadata) THEN [ok |-> TRUE, ws |-> ws]
    ELSE IF metadata.type # "dict" THEN [ok |-> FALSE, ws |-> ws]
    ELSE [ok |-> TRUE,
          ws |-> AddMetadataRowsAtTop(SetCell(ws, 1, 1, "Metadatos del Procesamiento"),
                                      metadata.items, 1)]

\* returns the worksheet, or raises when metadata has no items()
_add_metadata(ws, metadata) ==
    IF ~Truthy(metadata) THEN [ok |-> TRUE, ws |-> ws]
    ELSE IF metadata.type # "dict" THEN [ok |-> FALSE, ws |-> ws]
    ELSE [ok |-> TRUE,
          ws |-> AddMetadataRows(SetCell(ws, 1, 5, "Metadatos del Procesamiento"),
                                 metadata.items, 1)]

_find_start_row(ws) == IF CellValue(ws, 1, 1) \in HeaderCells THEN 2 ELSE 1

\* the three cells of one data row
WriteRow(ws, row, key, value) ==
    SetCell(SetCell(SetCell(ws, row, 1, key), row, 2, PyStr(value)), row, 3, TypeName(value))

RECURSIVE AddDictRows(_, _, _, _, _)
AddDictRows(ws, parent_key, items, i, current_row) ==
    IF i > Len(items) THEN [ws |-> ws, row |-> current_row]
    ELSE AddDictRows(
             WriteRow(ws, current_row, parent_key \o "." \o items[i][1], items[i][2]),
             parent_key, items, i + 1, current_row + 1)

_add_dict_data(ws, parent_key, data, start_row) ==
    AddDictRows(ws, parent_key, data.items, 1, start_row)

RECURSIVE AddListRows(_, _, _, _, _)
AddListRows(ws, parent_key, items, i, current_row) ==
    IF i > Len(items) THEN [ws |-> ws, row |-> current_row]
    ELSE AddListRows(
             WriteRow(ws, current_row, parent_key \o "[" \o ToString(i - 1) \o "]", items[i][2]),
             parent_key, items, i + 1, current_row + 1)

_add_list_data(ws, parent_key, data, start_row) ==
    AddListRows(ws, parent_key, data.items, 1, start_row)

\* the loop over data.items() of _populate_workbook
RECURSIVE PopulateRows(_, _, _, _)
PopulateRows(ws, items, i, current_row) ==
    IF i > Len(items) THEN [ws |-> ws, row |-> current_row]
    ELSE LET key == items[i][1]
             value == items[i][2]
             r == IF startswith_underscore(key)
                  THEN [ws |-> ws, row |-> current_row]
                  ELSE IF value.type = "dict"
                  THEN _add_dict_data(ws, key, value, current_row)
                  ELSE IF value.type = "list"
                  THEN _add_list_data(ws, key, value, current_row)
                  ELSE [ws |-> WriteRow(ws, current_row, key, value), row |-> current_row + 1]
         IN  PopulateRows(r.ws, items, i + 1, r.row)

InSeq(x, seq) == \E i \in DOMAIN seq : seq[i] = x

\* the worksheet _populate_workbook writes to
TargetSheet(workbook) ==
    IF InSeq("Datos", workbook.sheetnames) THEN "Datos"
    ELSE IF InSeq("Sheet1", workbook.sheetnames) THEN "Sheet1"
    ELSE workbook.active

\* data.get("_metadata", {})
GetMetadata(data) ==
    IF "_metadata" \in Keys(data) THEN GetItem(data, "_metadata") ELSE JDict(<<>>)

_populate_workbook(workbook, data) ==
    LET name == TargetSheet(workbook)
        m == _add_metadata(workbook.sheets[name], GetMetadata(data))
    IN  IF ~m.ok THEN [ok |-> FALSE, workbook |-> workbook]
        ELSE LET start_row == _find_start_row(m.ws)
                 r == PopulateRows(m.ws, data.items, 1, start_row)
             IN  [ok |-> TRUE,
                  workbook |-> [workbook EXCEPT !.sheets[name] = r.ws]]

\* datetime.now().strftime("%Y%m%d_%H%M%S"): one value per second
ReportPath(now) == "output/certiflow_report_" \o ToString(now) \o ".xlsx"

Rendered(path) == [ok |-> TRUE, path |-> path, error |-> NoError]
NotRendered(e) == [ok |-> FALSE, path |-> NoneValue, error |-> e]

\* workbook.save(output_path): creates or replaces the file
Save(dir, path, workbook) ==
    {f \in dir : f.path # path} \cup {[path |-> path, workbook |-> workbook]}

\* returns what the call returns or raises, and the output directory after it
generate_excel_report(data, template_name, now, save_ok, dir) ==
    LET loaded == IF template_name # NoneValue /\ template_name # ""
                  THEN _load_template(template_name)
                  ELSE Loaded(_create_default_workbook)
    IN  IF ~loaded.ok
        THEN [out |-> NotRendered(ExcelGenerationError(
                          "Error generando archivo Excel: " \o loaded.error.message)),
              dir |-> dir]
        ELSE LET populated == _populate_workbook(loaded.workbook, data)
             IN  IF ~populated.ok
                 THEN [out |-> NotRendered(ExcelGenerationError(
                                   "Error generando archivo Excel: AttributeError")),
                       dir |-> dir]
                 ELSE IF ~save_ok
                 THEN [out |-> NotRendered(ExcelGenerationError(
                                   "Error generando archivo Excel: OSError")),
                       dir |-> dir]
                 ELSE [out |-> Rendered(ReportPath(now)),
                       dir |-> Save(dir, ReportPath(now), populated.workbook)]

\* ----------------------------------------------------------- Orchestrator
VARIABLES
    pc,            \* stage of the process_file call in flight
    call,          \* its arguments
    text,          \* local: the extracted text
    structured,    \* local: the structured record
    result,        \* the dict process_file returned
    error,         \* the exception process_file raised
    stages,        \* stages entered by this call, in order
    invoked,       \* per call: how often each service method was invoked
    raised,        \* per call: the exception a service method raised
    started,       \* process_file calls started so far
    completed,     \* process_file calls that returned
    requests,      \* extraction-service requests made so far
    identical,     \* all calls so far had the same arguments
    output_dir,    \* files in the output directory
    pdf_content,   \* PDFService called directly: the bytes
    pdf_valid,     \* ... what validate_pdf returned
    pdf_text,      \* ... what extract_text_from_pdf returned or raised
    now,           \* the wall clock, in seconds
    renders,       \* generate_excel_report calls made so far
    excel_args,    \* ExcelService called directly: the arguments of the last call
    excel_out,     \* ... what generate_excel_report returned or raised
    ai_pc,         \* OpenAIService called directly: "idle", "waiting", "done"
    ai_text,       \* ... the text argument
    ai_schema,     \* ... the extraction_schema argument
    ai_request,    \* ... the request sent to the extraction service
    ai_reply,      \* ... the reply that arrived, if one did
    ai_out,        \* ... what extract_structured_data returned or raised
    route_req,     \* the last HTTP request handled by a route
    route_calls,   \* ... the service functions its handler called
    route_resp,    \* ... the HTTP response it was answered with
    route_exc,     \* ... the exception raised inside its handler's try block
    route_errors,  \* some request so far was answered with a 5xx status
    inv_pc,        \* concurrent process_file invocations: the stage of each
    inv_call,      \* ... its arguments
    inv_text,      \* ... its local text
    inv_structured,\* ... its local structured
    inv_request,   \* ... the text it sent to the extraction service
    inv_reply,     \* ... the reply it received and the time the request took
    inv_out,       \* ... what it returned or raised
    overlapped     \* ... some invocation took a step while another was in flight

vars == <<pc, call, text, structured, result, error, stages, invoked, raised,
          started, completed, requests, identical, output_dir,
          pdf_content, pdf_valid, pdf_text, now, renders, excel_args, excel_out,
          ai_pc, ai_text, ai_schema, ai_request, ai_reply, ai_out,
          route_req, route_calls, route_resp, route_exc, route_errors,
          inv_pc, inv_call, inv_text, inv_structured, inv_request, inv_reply, inv_out,
          overlapped>>

orchestratorVars == <<pc, call, text, structured, result, error, stages, invoked, raised,
                      started, completed, requests, identical>>
pdfVars == <<pdf_content, pdf_valid, pdf_text>>
excelVars == <<now, renders, excel_args, excel_out>>
aiVars == <<ai_pc, ai_text, ai_schema, ai_request, ai_reply, ai_out>>
routeVars == <<route_req, route_calls, route_resp, route_exc, route_errors>>
invocationVars == <<inv_pc, inv_call, inv_text, inv_structured, inv_request, inv_reply,
                    inv_out, overlapped>>
serviceVars == <<aiVars, routeVars, invocationVars>>

Filenames == {NoneValue, "doc.pdf"}
TemplateNames == {NoneValue, "t1"}
OutputFormats == {"json", "excel"}

Calls == [file_bytes : CallDocuments, filename : Filenames,
          template_name : TemplateNames, output_format : OutputFormats]

NoCall == [file_bytes |-> [open |-> "ok", pages_ok |-> TRUE, pages |-> <<>>],
           filename |-> NoneValue, template_name |-> NoneValue, output_format |-> "json"]

NoResult == [keys |-> {}, data |-> JNull, excel_path |-> NoneValue,
             metadata |-> [processing_time |-> 0, filename |-> NoneValue]]

NoInvocations == [validate_pdf |-> 0, extract_text_from_pdf |-> 0,
                  extract_structured_data |-> 0, generate_excel_report |-> 0]

Terminal == {"Completed", "Failed"}

Pending == [ok |-> FALSE, text |-> <<>>, error |-> [kind |-> "pending", message |-> "none"]]

InitOrchestrator ==
    /\ pc = "Idle"
    /\ call = NoCall
    /\ text = <<>>
    /\ structured = JNull
    /\ result = NoResult
    /\ error = NoError
    /\ stages = <<>>
    /\ invoked = NoInvocations
    /\ raised = NoError
    /\ started = 0
    /\ completed = 0
    /\ requests = 0
    /\ identical = TRUE

InitExcel ==
    /\ output_dir = {}
    /\ now = 0
    /\ renders = 0
    /\ excel_args = [data |-> JDict(<<>>), template_name |-> NoneValue]
    /\ excel_out = NotRendered(NoError)

NoRequest == [model |-> NoneValue, system |-> NoneValue, text |-> <<>>, schema |-> NoneValue,
              max_tokens |-> 0, response_format |-> NoneValue]

NoReply == [raises |-> FALSE, json_ok |-> FALSE, value |-> JNull, tokens |-> "no reply"]

NoData == [ok |-> FALSE, data |-> JNull, error |-> [kind |-> "pending", message |-> "none"]]

\* no direct OpenAIService call is made
InitOpenAIIdle ==
    /\ ai_pc = "idle"
    /\ ai_text = <<>>
    /\ ai_schema = NoneValue
    /\ ai_request = NoRequest
    /\ ai_reply = NoReply
    /\ ai_out = NoData

\* an upload: size is how len(content) compares with 0 and max_file_size
EmptyBytes == [open |-> "PdfReadError", pages_ok |-> FALSE, pages |-> <<>>]

NoUpload == [filename |-> "", size |-> "empty", content |-> EmptyBytes]

NoRouteRequest == [endpoint |-> NoneValue, upload |-> NoUpload, filename |-> NoneValue,
                   reply |-> NoReply]

Response(status_code, detail, body) ==
    [status_code |-> status_code, detail |-> detail, body |-> body]

NoResponse == Response(0, NoneValue, JNull)

\* no request has been handled
InitRoutesIdle ==
    /\ route_req = NoRouteRequest
    /\ route_calls = {}
    /\ route_resp = NoResponse
    /\ route_exc = NoError
    /\ route_errors = FALSE

Invocations == 1..MaxInvocations

NotSent == [sent |-> FALSE, text |-> <<>>]
Sent(t) == [sent |-> TRUE, text |-> t]

NotReceived == [reply |-> NoReply, processing_time |-> 0]

NoOutcome == [ok |-> FALSE, result |-> NoResult, error |-> NoError]

\* no process_file invocation has started
InitInvocationsIdle ==
    /\ inv_pc = [p \in Invocations |-> "Idle"]
    /\ inv_call = [p \in Invocations |-> NoCall]
    /\ inv_text = [p \in Invocations |-> <<>>]
    /\ inv_structured = [p \in Invocations |-> JNull]
    /\ inv_request = [p \in Invocations |-> NotSent]
    /\ inv_reply = [p \in Invocations |-> NotReceived]
    /\ inv_out = [p \in Invocations |-> NoOutcome]
    /\ overlapped = FALSE

InitServicesIdle ==
    /\ InitOpenAIIdle
    /\ InitRoutesIdle
    /\ InitInvocationsIdle

InitPdf ==
    /\ InitOrchestrator
    /\ InitExcel
    /\ InitServicesIdle
    /\ pdf_content \in Documents
    /\ pdf_valid = "unknown"
    /\ pdf_text = Pending

InitExcelOnly ==
    /\ InitOrchestrator
    /\ InitExcel
    /\ InitServicesIdle
    /\ pdf_content = NoCall.file_bytes
    /\ pdf_valid = "unknown"
    /\ pdf_text = Pending

Init ==
    /\ InitOrchestrator
    /\ InitExcel
    /\ InitServicesIdle
    /\ pdf_content = NoCall.file_bytes
    /\ pdf_valid = "unknown"
    /\ pdf_text = Pending

\* entry of process_file: start_time = time.time()
ProcessFile(c) ==
    /\ pc \in Terminal \cup {"Idle"}
    /\ started < MaxCalls
    /\ pc' = "Received"
    /\ call' = c
    /\ text' = <<>>
    /\ structured' = JNull
    /\ result' = NoResult
    /\ error' = NoError
    /\ stages' = <<"Received">>
    /\ invoked' = NoInvocations
    /\ raised' = NoError
    /\ started' = started + 1
    /\ identical' = (started = 0 \/ (identical /\ c = call))
    /\ UNCHANGED <<completed, requests, output_dir, pdfVars, excelVars, serviceVars>>

Fail(e) ==
    /\ pc' = "Failed"
    /\ error' = e
    /\ stages' = Append(stages, "Failed")

\* Validate without the early raise
ValidateAcceptsAll ==
    /\ pc = "Received"
    /\ invoked' = [invoked EXCEPT !.validate_pdf = @ + 1]
    /\ pc' = "Validated"
    /\ stages' = Append(stages, "Validated")
    /\ UNCHANGED <<call, text, structured, result, error, raised, started, completed,
                   requests, identical, output_dir, pdfVars, excelVars, serviceVars>>

\* if not self.pdf_service.validate_pdf(file_bytes): raise PDFProcessingError
Validate ==
    /\ pc = "Received"
    /\ invoked' = [invoked EXCEPT !.validate_pdf = @ + 1]
    /\ IF validate_pdf(call.file_bytes)
       THEN /\ pc' = "Validated"
            /\ stages' = Append(stages, "Validated")
            /\ error' = error
       ELSE Fail(PDFProcessingError("El archivo no es un PDF valido"))
    /\ UNCHANGED <<call, text, structured, result, raised, started, completed, requests,
                   identical, output_dir, pdfVars, excelVars, serviceVars>>

\* ExtractText catching the service's error and going on with an empty text
ExtractTextSwallowing ==
    /\ pc = "Validated"
    /\ invoked' = [invoked EXCEPT !.extract_text_from_pdf = @ + 1]
    /\ LET r == extract_text_from_pdf(call.file_bytes)
       IN  /\ text' = r.text
           /\ raised' = IF r.ok THEN raised ELSE r.error
    /\ pc' = "TextExtracted"
    /\ stages' = Append(stages, "TextExtracted")
    /\ UNCHANGED <<call, structured, result, error, started, completed, requests,
                   identical, output_dir, pdfVars, excelVars, serviceVars>>

\* text = self.pdf_service.extract_text_from_pdf(file_bytes)
ExtractText ==
    /\ pc = "Validated"
    /\ invoked' = [invoked EXCEPT !.extract_text_from_pdf = @ + 1]
    /\ LET r == extract_text_from_pdf(call.file_bytes)
       IN  IF r.ok
           THEN /\ text' = r.text
                /\ pc' = "TextExtracted"
                /\ stages' = Append(stages, "TextExtracted")
                /\ error' = error
                /\ raised' = raised
           ELSE /\ Fail(r.error)
                /\ raised' = r.error
                /\ text' = text
    /\ UNCHANGED <<call, structured, result, started, completed, requests,
                   identical, output_dir, pdfVars, excelVars, serviceVars>>

\* ExtractData answering a repeated input from a cache
ExtractDataCached ==
    /\ pc = "TextExtracted"
    /\ LET hit == identical /\ completed >= 1
       IN  /\ invoked' = [invoked EXCEPT !.extract_structured_data = IF hit THEN @ ELSE @ + 1]
           /\ requests' = IF hit THEN requests ELSE requests + 1
    /\ \E reply \in Replies, processing_time \in 0..MaxElapsed :
          LET r == extract_structured_data(text, reply, processing_time)
          IN  IF r.ok
              THEN /\ structured' = r.data
                   /\ pc' = "DataExtracted"
                   /\ stages' = Append(stages, "DataExtracted")
                   /\ error' = error
                   /\ raised' = raised
              ELSE /\ Fail(r.error)
                   /\ raised' = r.error
                   /\ structured' = structured
    /\ UNCHANGED <<call, text, result, started, completed, identical, output_dir,
                   pdfVars, excelVars, serviceVars>>

\* ExtractData going back to text extraction after a first failed request
ExtractDataRetrying ==
    /\ pc = "TextExtracted"
    /\ invoked' = [invoked EXCEPT !.extract_structured_data = @ + 1]
    /\ requests' = requests + 1
    /\ \E reply \in Replies, processing_time \in 0..MaxElapsed :
          LET r == extract_structured_data(text, reply, processing_time)
          IN  IF r.ok
              THEN /\ structured' = r.data
                   /\ pc' = "DataExtracted"
                   /\ stages' = Append(stages, "DataExtracted")
                   /\ error' = error
                   /\ raised' = raised
              ELSE IF invoked.extract_structured_data = 0
              THEN /\ pc' = "Validated"
                   /\ stages' = Append(stages, "Validated")
                   /\ UNCHANGED <<structured, error, raised>>
              ELSE /\ Fail(r.error)
                   /\ raised' = r.error
                   /\ structured' = structured
    /\ UNCHANGED <<call, text, result, started, completed, identical, output_dir,
                   pdfVars, excelVars, serviceVars>>

\* structured = self.openai_service.extract_structured_data(text)
ExtractData ==
    /\ pc = "TextExtracted"
    /\ invoked' = [invoked EXCEPT !.extract_structured_data = @ + 1]
    /\ requests' = requests + 1
    /\ \E reply \in Replies, processing_time \in 0..MaxElapsed :
          LET r == extract_structured_data(text, reply, processing_time)
          IN  IF r.ok
              THEN /\ structured' = r.data
                   /\ pc' = "DataExtracted"
                   /\ stages' = Append(stages, "DataExtracted")
                   /\ error' = error
                   /\ raised' = raised
              ELSE /\ Fail(r.error)
                   /\ raised' = r.error
                   /\ structured' = structured
    /\ UNCHANGED <<call, text, result, started, completed, identical, output_dir, pdfVars, excelVars, serviceVars>>

\* Complete rendering the report whatever the output format
CompleteRenderingAlways ==
    /\ pc = "DataExtracted"
    /\ invoked' = [invoked EXCEPT !.generate_excel_report = @ + 1]
    /\ LET r == generate_excel_report(structured, call.template_name, now, TRUE, output_dir)
       IN  /\ output_dir' = r.dir
           /\ IF r.out.ok
              THEN /\ \E processing_time \in 0..MaxElapsed :
                         result' = [keys |-> {"data", "excel_path", "metadata"},
                                    data |-> structured,
                                    excel_path |-> r.out.path,
                                    metadata |-> [processing_time |-> processing_time,
                                                  filename |-> call.filename]]
                   /\ pc' = "Completed"
                   /\ stages' = Append(stages, "Completed")
                   /\ completed' = completed + 1
                   /\ UNCHANGED <<error, raised>>
              ELSE /\ Fail(r.out.error)
                   /\ raised' = r.out.error
                   /\ UNCHANGED <<result, completed>>
    /\ UNCHANGED <<call, text, structured, started, requests, identical, pdfVars, excelVars, serviceVars>>

\* processing_time, metadata and the returned dict
Complete ==
    /\ pc = "DataExtracted"
    /\ \E processing_time \in 0..MaxElapsed :
          result' = [keys |-> {"data", "metadata"},
                     data |-> structured,
                     excel_path |-> NoneValue,
                     metadata |-> [processing_time |-> processing_time,
                                   filename |-> call.filename]]
    /\ pc' = "Completed"
    /\ stages' = Append(stages, "Completed")
    /\ completed' = completed + 1
    /\ UNCHANGED <<call, text, structured, error, invoked, raised, started, requests,
                   identical, output_dir, pdfVars, excelVars, serviceVars>>

Next ==
    \/ \E c \in Calls : ProcessFile(c)
    \/ Validate
    \/ ExtractText
    \/ ExtractData
    \/ Complete

Spec == Init /\ [][Next]_vars

\* ------------------------------------------- PDFService called on its own
\* validate_pdf catching only PyPDF2's own read error
ValidatePdfPropagating ==
    /\ pdf_valid = "unknown"
    /\ pdf_valid' = IF pdf_content.open = "ok" THEN "True"
                    ELSE IF pdf_content.open = "PdfReadError" THEN "False"
                    ELSE "raised"
    /\ UNCHANGED <<orchestratorVars, output_dir, pdf_content, pdf_text, excelVars, serviceVars>>

\* pdf_service.validate_pdf(content)
ValidatePdf ==
    /\ pdf_valid = "unknown"
    /\ pdf_valid' = IF validate_pdf(pdf_content) THEN "True" ELSE "False"
    /\ UNCHANGED <<orchestratorVars, output_dir, pdf_content, pdf_text, excelVars, serviceVars>>

\* pdf_service.extract_text_from_pdf(content)
ExtractTextFromPdf ==
    /\ pdf_text = Pending
    /\ pdf_text' = extract_text_from_pdf(pdf_content)
    /\ UNCHANGED <<orchestratorVars, output_dir, pdf_content, pdf_valid, excelVars, serviceVars>>

NextPdf == ValidatePdf \/ ExtractTextFromPdf

SpecPdf == InitPdf /\ [][NextPdf]_vars

\* ----------------------------------------- ExcelService called on its own
ReportRecords ==
    { JDict(<<>>),
      JDict(<< <<"a", JNum(1)>>,
               <<"b", JDict(<< <<"x", JNum(2)>>, <<"y", JNum(3)>> >>)>>,
               <<"c", JList(<< <<"", JNum(10)>>, <<"", JNum(20)>> >>)>> >>),
      JDict(<< <<"a", JNum(1)>>,
               <<"b", JDict(<< <<"x", JNum(2)>>, <<"y", JNum(3)>> >>)>>,
               <<"c", JList(<< <<"", JNum(10)>>, <<"", JNum(20)>> >>)>>,
               <<"_metadata", Metadata(1, "120")>> >>),
      JDict(<< <<"p", JDict(<< <<"q", JDict(<< <<"r", JNum(1)>> >>)>> >>)>> >>),
      JDict(<< <<"_id", JStr("7")>>, <<"nombre", JStr("Ana")>> >>),
      JDict(<< <<"_metadata", JDict(<<>>)>>, <<"edad", JNum(30)>> >>),
      JDict(<< <<"nombre", JNull>>, <<"_metadata", JStr("fake")>> >>) }

TemplateArgs == {NoneValue, "", "datos", "plain", "corrupt", "missing"}

\* excel_service.generate_excel_report(data, template_name)
GenerateExcelReport ==
    /\ renders < MaxRenders
    /\ \E data \in ReportRecords, template_name \in TemplateArgs, save_ok \in BOOLEAN :
          LET r == generate_excel_report(data, template_name, now, save_ok, output_dir)
          IN  /\ excel_args' = [data |-> data, template_name |-> template_name]
              /\ excel_out' = r.out
              /\ output_dir' = r.dir
    /\ renders' = renders + 1
    /\ UNCHANGED <<orchestratorVars, pdfVars, serviceVars, now>>

\* a second of wall-clock time passes
Tick ==
    /\ now < MaxClock
    /\ now' = now + 1
    /\ UNCHANGED <<orchestratorVars, pdfVars, serviceVars, output_dir, renders, excel_args, excel_out>>

NextExcel == GenerateExcelReport \/ Tick

SpecExcel == InitExcelOnly /\ [][NextExcel]_vars

\* ---------------------------------------- OpenAIService called on its own
openai_max_tokens == 4000

\* the texts extract_text_from_pdf hands on
ExtractedTexts ==
    {extract_text_from_pdf(d).text :
        d \in {c \in Documents : Len(c.pages) <= MaxTextPages /\ extract_text_from_pdf(c).ok}}

Schemas == {NoneValue, "schema"}

\* the prompt embeds the text and, when a schema is given, the schema
_build_extraction_prompt(text_arg, schema) ==
    [text |-> text_arg, schema |-> IF schema # NoneValue /\ schema # "" THEN schema ELSE NoneValue]

InitOpenAI ==
    /\ InitOrchestrator
    /\ InitExcel
    /\ pdf_content = NoCall.file_bytes
    /\ pdf_valid = "unknown"
    /\ pdf_text = Pending
    /\ ai_pc = "idle"
    /\ ai_text \in ExtractedTexts
    /\ ai_schema \in Schemas
    /\ ai_request = NoRequest
    /\ ai_reply = NoReply
    /\ ai_out = NoData
    /\ InitRoutesIdle
    /\ InitInvocationsIdle

\* extract_structured_data up to self.client.chat.completions.create(...)
SendRequest ==
    /\ ai_pc = "idle"
    /\ LET prompt == _build_extraction_prompt(ai_text, ai_schema)
       IN  ai_request' = [model |-> openai_model,
                          system |-> "Eres un experto en extraccion de informacion",
                          text |-> prompt.text,
                          schema |-> prompt.schema,
                          max_tokens |-> openai_max_tokens,
                          response_format |-> "json_object"]
    /\ ai_pc' = "waiting"
    /\ UNCHANGED <<orchestratorVars, output_dir, pdfVars, excelVars,
                   ai_text, ai_schema, ai_reply, ai_out, routeVars,
                   invocationVars>>

\* the service answers, or the request fails with an API or network error;
\* the rest of extract_structured_data runs
ReceiveReply ==
    /\ ai_pc = "waiting"
    /\ \E reply \in Replies, processing_time \in 0..MaxElapsed :
          /\ ai_reply' = reply
          /\ ai_out' = extract_structured_data(ai_text, reply, processing_time)
    /\ ai_pc' = "done"
    /\ UNCHANGED <<orchestratorVars, output_dir, pdfVars, excelVars,
                   ai_text, ai_schema, ai_request, routeVars,
                   invocationVars>>

TimeoutReply == [raises |-> TRUE, json_ok |-> FALSE, value |-> JNull, tokens |-> NoneValue]

\* OpenAI(api_key=...) is built without a timeout argument: no timer ever fires
ClientTimeoutDisabled ==
    /\ ai_pc = "waiting"
    /\ FALSE
    /\ UNCHANGED vars

\* no answer arrives: the client built by OpenAI(api_key=...) gives up after
\* its default timeout and create() raises APITimeoutError, which the
\* 'except Exception' of extract_structured_data turns into OpenAIError
ClientTimeout ==
    /\ ai_pc = "waiting"
    /\ ai_out' = extract_structured_data(ai_text, TimeoutReply, 0)
    /\ ai_pc' = "done"
    /\ UNCHANGED <<orchestratorVars, output_dir, pdfVars, excelVars,
                   ai_text, ai_schema, ai_request, ai_reply, routeVars,
                   invocationVars>>

NextOpenAI == SendRequest \/ ReceiveReply \/ ClientTimeout

SpecOpenAI == InitOpenAI /\ [][NextOpenAI]_vars /\ WF_vars(ClientTimeout)

\* ================================================================ routes
allowed_extensions == {".pdf"}

RouteFilenames == {"", "doc.pdf", "DOC.PDF", "notes.txt"}

\* Path(filename).suffix.lower()
SuffixLower(filename) ==
    CASE filename = "doc.pdf" -> ".pdf"
      [] filename = "DOC.PDF" -> ".pdf"
      [] filename = "notes.txt" -> ".txt"
      [] OTHER -> ""

\* the documents uploaded
RouteDocuments == CallDocuments

Uploads ==
    [filename : RouteFilenames, size : {"ok"}, content : RouteDocuments]
    \cup [filename : RouteFilenames, size : {"empty", "too_big"}, content : {EmptyBytes}]

\* what the extraction service would answer if it were asked
RouteReplies ==
    {r \in Replies :
        \/ ~r.json_ok
        \/ r.value \in {JDict(<< <<"nombre", JStr("Ana")>> >>), JList(<< <<"", JNum(1)>> >>)}}

FileValidationError(m) == [kind |-> "FileValidationError", message |-> m]
HTTPException(status_code, detail) ==
    [kind |-> "HTTPException", message |-> detail, status_code |-> status_code]
AttributeError(m) == [kind |-> "AttributeError", message |-> m]

\* validate_file: the exception it raises, or NoError
validate_file(file) ==
    IF file.filename = ""
    THEN FileValidationError("El archivo no tiene nombre")
    ELSE IF SuffixLower(file.filename) \notin allowed_extensions
    THEN FileValidationError("Extension no permitida")
    ELSE IF file.size = "too_big"
    THEN FileValidationError("El archivo excede el tamano maximo")
    ELSE IF file.size = "empty"
    THEN FileValidationError("El archivo esta vacio")
    ELSE NoError

\* the methods class OpenAIService defines
OpenAIServiceMethods ==
    {"__init__", "extract_structured_data", "_build_extraction_prompt", "test_connection"}

\* a handler's try body: it returns a body or raises, after some service calls
Returns(body, calls) == [ok |-> TRUE, body |-> body, error |-> NoError, calls |-> calls]
Raises(e, calls) == [ok |-> FALSE, body |-> JNull, error |-> e, calls |-> calls]

PersonalFields ==
    <<"nombre", "cedula", "email", "provincia", "ciudad", "direccion",
      "telefono", "celular", "edad">>

\* personal_data.get(k) for each of the nine keys
PersonalDataView(personal_data) ==
    JDict([i \in DOMAIN PersonalFields |->
              <<PersonalFields[i],
                IF PersonalFields[i] \in Keys(personal_data)
                THEN GetItem(personal_data, PersonalFields[i])
                ELSE JNull>>])

\* the try body of extract_personal_data
ExtractPersonalDataBody(file, reply) ==
    IF file.filename = ""
    THEN Raises(HTTPException(400, "No se recibio ningun archivo"), {})
    ELSE IF validate_file(file) # NoError
    THEN Raises(validate_file(file), {"validate_file"})
    ELSE IF file.size = "empty"
    THEN Raises(HTTPException(400, "El archivo esta vacio o no se pudo leer correctamente."),
                {"validate_file"})
    ELSE IF ~validate_pdf(file.content)
    THEN Raises(HTTPException(400, "El archivo no es un PDF valido"),
                {"validate_file", "validate_pdf"})
    ELSE LET extracted_text == extract_text_from_pdf(file.content)
             calls == {"validate_file", "validate_pdf", "extract_text_from_pdf"}
         IN  IF ~extracted_text.ok
             THEN Raises(extracted_text.error, calls)
             \* openai_service.extract_personal_data: no such attribute
             ELSE IF "extract_personal_data" \notin OpenAIServiceMethods
             THEN Raises(AttributeError("extract_personal_data"), calls)
             ELSE IF ~reply.json_ok \/ reply.value.type # "dict"
             THEN Raises(OpenAIError("Error procesando con OpenAI"),
                         calls \cup {"extract_personal_data"})
             ELSE Returns(PersonalDataView(reply.value),
                          calls \cup {"extract_personal_data"})

\* the except clauses of extract_personal_data, and the response FastAPI
\* sends for the HTTPException they raise
ExtractPersonalDataResponse(outcome) ==
    IF outcome.ok THEN Response(200, NoneValue, outcome.body)
    ELSE IF outcome.error.kind = "PDFProcessingError"
    THEN Response(400, "Error procesando PDF: " \o outcome.error.message, JNull)
    ELSE IF outcome.error.kind = "OpenAIError"
    THEN Response(500, "Error procesando con IA: " \o outcome.error.message, JNull)
    ELSE Response(500, "Error interno del servidor", JNull)

\* POST /extract-personal-data/
ExtractPersonalData ==
    \E file \in Uploads, reply \in RouteReplies :
        LET outcome == ExtractPersonalDataBody(file, reply)
        IN  /\ route_req' = [endpoint |-> "extract-personal-data", upload |-> file,
                             filename |-> NoneValue, reply |-> reply]
            /\ route_calls' = outcome.calls
            /\ route_resp' = ExtractPersonalDataResponse(outcome)
            /\ route_exc' = outcome.error
            /\ route_errors' = (route_errors \/ route_resp'.status_code >= 500)
            /\ UNCHANGED <<orchestratorVars, output_dir, pdfVars, excelVars, aiVars, invocationVars>>

\* the subclasses of CertiflowException
CertiflowExceptions ==
    {"CertiflowException", "PDFProcessingError", "OpenAIError", "ExcelGenerationError",
     "FileValidationError", "TemplateNotFoundError"}

\* save_uploaded_file: the exception it raises, or NoError
save_uploaded_file(file, write_ok) ==
    IF write_ok THEN NoError
    ELSE FileValidationError("Error guardando archivo: write failed")

\* the try body of upload_pdf
UploadPdfBody(file, write_ok) ==
    IF validate_file(file) # NoError
    THEN Raises(validate_file(file), {"validate_file"})
    ELSE IF ~validate_pdf(file.content)
    THEN Raises(HTTPException(400, "El archivo no es un PDF valido"),
                {"validate_file", "validate_pdf"})
    ELSE IF save_uploaded_file(file, write_ok) # NoError
    THEN Raises(save_uploaded_file(file, write_ok),
                {"validate_file", "validate_pdf", "save_uploaded_file"})
    ELSE Returns(JDict(<< <<"message", JStr("Archivo PDF subido exitosamente")>>,
                          <<"filename", JStr(file.filename)>> >>),
                 {"validate_file", "validate_pdf", "save_uploaded_file"})

\* the except clauses of upload_pdf
UploadPdfResponse(outcome) ==
    IF outcome.ok THEN Response(200, NoneValue, outcome.body)
    ELSE IF outcome.error.kind \in CertiflowExceptions
    THEN Response(400, outcome.error.message, JNull)
    ELSE Response(500, "Error interno del servidor", JNull)

\* POST /upload-pdf/
UploadPdf ==
    \E file \in Uploads, write_ok \in BOOLEAN :
        LET outcome == UploadPdfBody(file, write_ok)
        IN  /\ route_req' = [endpoint |-> "upload-pdf", upload |-> file,
                             filename |-> NoneValue, reply |-> NoReply]
            /\ route_calls' = outcome.calls
            /\ route_resp' = UploadPdfResponse(outcome)
            /\ route_exc' = outcome.error
            /\ route_errors' = (route_errors \/ route_resp'.status_code >= 500)
            /\ UNCHANGED <<orchestratorVars, output_dir, pdfVars, excelVars, aiVars, invocationVars>>

\* the try body of extract_data, and the output directory after it
ExtractDataBody(file, reply, output_format, template_name, dir) ==
    IF validate_file(file) # NoError
    THEN [outcome |-> Raises(validate_file(file), {"validate_file"}), dir |-> dir]
    ELSE IF ~validate_pdf(file.content)
    THEN [outcome |-> Raises(HTTPException(400, "El archivo no es un PDF valido"),
                             {"validate_file", "validate_pdf"}),
          dir |-> dir]
    ELSE LET extracted_text == extract_text_from_pdf(file.content)
             calls == {"validate_file", "validate_pdf", "extract_text_from_pdf"}
         IN  IF ~extracted_text.ok
             THEN [outcome |-> Raises(extracted_text.error, calls), dir |-> dir]
             \* openai_service.extract_personal_data: no such attribute
             ELSE IF "extract_personal_data" \notin OpenAIServiceMethods
             THEN [outcome |-> Raises(AttributeError("extract_personal_data"), calls),
                   dir |-> dir]
             ELSE IF ~reply.json_ok \/ reply.value.type # "dict"
             THEN [outcome |-> Raises(OpenAIError("Error procesando con OpenAI"),
                                      calls \cup {"extract_personal_data"}),
                   dir |-> dir]
             ELSE IF output_format # "excel"
             THEN [outcome |-> Returns(reply.value, calls \cup {"extract_personal_data"}),
                   dir |-> dir]
             ELSE LET r == generate_excel_report(reply.value, template_name, now, TRUE, dir)
                      all == calls \cup {"extract_personal_data", "generate_excel_report"}
                  IN  [outcome |-> IF r.out.ok THEN Returns(reply.value, all)
                                   ELSE Raises(r.out.error, all),
                       dir |-> r.dir]

\* the except clauses of extract_data
ExtractDataResponse(outcome) ==
    IF outcome.ok THEN Response(200, NoneValue, outcome.body)
    ELSE IF outcome.error.kind = "PDFProcessingError"
    THEN Response(400, "Error procesando PDF: " \o outcome.error.message, JNull)
    ELSE IF outcome.error.kind = "OpenAIError"
    THEN Response(500, "Error procesando con IA: " \o outcome.error.message, JNull)
    ELSE IF outcome.error.kind = "ExcelGenerationError"
    THEN Response(500, "Error generando Excel: " \o outcome.error.message, JNull)
    ELSE Response(500, "Error interno del servidor", JNull)

\* POST /extract-data/
ExtractDataRoute ==
    \E file \in Uploads, reply \in RouteReplies, output_format \in {"json", "excel"} :
        LET r == ExtractDataBody(file, reply, output_format, NoneValue, output_dir)
        IN  /\ route_req' = [endpoint |-> "extract-data", upload |-> file,
                             filename |-> NoneValue, reply |-> reply]
            /\ route_calls' = r.outcome.calls
            /\ route_resp' = ExtractDataResponse(r.outcome)
            /\ route_exc' = r.outcome.error
            /\ route_errors' = (route_errors \/ route_resp'.status_code >= 500)
            /\ output_dir' = r.dir
            /\ UNCHANGED <<orchestratorVars, pdfVars, excelVars, aiVars, invocationVars>>

DownloadNames ==
    {"certiflow_report_0.xlsx", "certiflow_report_1.xlsx", "nope.xlsx"}

\* os.path.exists(file_path)
Exists(dir, file_path) == \E f \in dir : f.path = file_path

\* the try body of download_excel
DownloadExcelBody(filename, dir) ==
    LET file_path == "output/" \o filename
    IN  IF ~Exists(dir, file_path)
        THEN Raises(HTTPException(404, "Archivo no encontrado"), {})
        ELSE Returns(JStr(file_path), {})

\* the except clause of download_excel
DownloadExcelResponse(outcome) ==
    IF outcome.ok THEN Response(200, NoneValue, outcome.body)
    ELSE Response(500, "Error descargando archivo", JNull)

\* GET /download-excel/{filename}
DownloadExcel ==
    \E filename \in DownloadNames :
        LET outcome == DownloadExcelBody(filename, output_dir)
        IN  /\ route_req' = [endpoint |-> "download-excel", upload |-> NoUpload,
                             filename |-> filename, reply |-> NoReply]
            /\ route_calls' = outcome.calls
            /\ route_resp' = DownloadExcelResponse(outcome)
            /\ route_exc' = outcome.error
            /\ route_errors' = (route_errors \/ route_resp'.status_code >= 500)
            /\ UNCHANGED <<orchestratorVars, output_dir, pdfVars, excelVars, aiVars, invocationVars>>

Exception(m) == [kind |-> "Exception", message |-> m]

\* POST /test-upload/: the handler returns a dict on every path
TestUpload ==
    \E file \in Uploads, read_ok \in BOOLEAN :
        LET e == IF file.filename # "" /\ ~read_ok THEN Exception("read failed")
                 ELSE NoError
            body == IF file.filename = ""
                    THEN JDict(<< <<"success", JStr("False")>>,
                                  <<"error", JStr("No se recibio ningun archivo")>> >>)
                    ELSE IF e # NoError
                    THEN JDict(<< <<"success", JStr("False")>>,
                                  <<"error", JStr(e.message)>> >>)
                    ELSE JDict(<< <<"success", JStr("True")>>,
                                  <<"filename", JStr(file.filename)>> >>)
        IN  /\ route_req' = [endpoint |-> "test-upload", upload |-> file,
                             filename |-> NoneValue, reply |-> NoReply]
            /\ route_calls' = {}
            /\ route_resp' = Response(200, NoneValue, body)
            /\ route_exc' = e
            /\ route_errors' = route_errors
            /\ UNCHANGED <<orchestratorVars, output_dir, pdfVars, excelVars, aiVars, invocationVars>>

\* health_check reporting the errors answered so far
HealthCheckProbing ==
    /\ route_req' = [endpoint |-> "health", upload |-> NoUpload,
                     filename |-> NoneValue, reply |-> NoReply]
    /\ route_calls' = {}
    /\ route_resp' =
          IF route_errors
          THEN Response(503, NoneValue,
                        JDict(<< <<"status", JStr("unhealthy")>>,
                                 <<"timestamp", JNum(now)>> >>))
          ELSE Response(200, NoneValue,
                        JDict(<< <<"status", JStr("healthy")>>,
                                 <<"version", JStr("1.0.0")>>,
                                 <<"timestamp", JNum(now)>>,
                                 <<"services", JDict(<< <<"openai", JStr("unknown")>>,
                                                        <<"file_system", JStr("ok")>>,
                                                        <<"logging", JStr("ok")>> >>)>> >>))
    /\ route_exc' = NoError
    /\ route_errors' = route_errors
    /\ UNCHANGED <<orchestratorVars, output_dir, pdfVars, excelVars, aiVars, invocationVars>>

\* GET /health
HealthCheck ==
    /\ route_req' = [endpoint |-> "health", upload |-> NoUpload,
                     filename |-> NoneValue, reply |-> NoReply]
    /\ route_calls' = {}
    /\ route_resp' =
          Response(200, NoneValue,
                   JDict(<< <<"status", JStr("healthy")>>,
                            <<"version", JStr("1.0.0")>>,
                            <<"timestamp", JNum(now)>>,
                            <<"services", JDict(<< <<"openai", JStr("unknown")>>,
                                                   <<"file_system", JStr("ok")>>,
                                                   <<"logging", JStr("ok")>> >>)>> >>))
    /\ route_exc' = NoError
    /\ route_errors' = route_errors
    /\ UNCHANGED <<orchestratorVars, output_dir, pdfVars, excelVars, aiVars, invocationVars>>

\* the output directory the service starts with: empty, or holding reports
\* rendered earlier
StartDirs ==
    {{}} \cup {generate_excel_report(data, NoneValue, 0, TRUE, {}).dir :
                  data \in {JDict(<<>>), JDict(<< <<"nombre", JStr("Ana")>> >>)}}

InitRoutes ==
    /\ InitOrchestrator
    /\ output_dir \in StartDirs
    /\ now = 0
    /\ renders = 0
    /\ excel_args = [data |-> JDict(<<>>), template_name |-> NoneValue]
    /\ excel_out = NotRendered(NoError)
    /\ pdf_content = NoCall.file_bytes
    /\ pdf_valid = "unknown"
    /\ pdf_text = Pending
    /\ InitOpenAIIdle
    /\ InitRoutesIdle
    /\ InitInvocationsIdle

NextRoutes ==
    \/ UploadPdf
    \/ ExtractPersonalData
    \/ ExtractDataRoute
    \/ DownloadExcel
    \/ TestUpload
    \/ HealthCheck

SpecRoutes == InitRoutes /\ [][NextRoutes]_vars

\* ============================================ concurrent process_file
\* the calls made concurrently on the one Orchestrator
ConcCalls ==
    {[file_bytes |-> [open |-> "PdfReadError", pages_ok |-> FALSE, pages |-> <<>>],
      filename |-> "a.pdf", template_name |-> NoneValue, output_format |-> "json"],
     [file_bytes |-> [open |-> "ok", pages_ok |-> TRUE, pages |-> <<>>],
      filename |-> "a.pdf", template_name |-> NoneValue, output_format |-> "json"],
     [file_bytes |-> [open |-> "ok", pages_ok |-> TRUE,
                      pages |-> <<[raises |-> FALSE, text |-> <<"a">>]>>],
      filename |-> "a.pdf", template_name |-> NoneValue, output_format |-> "json"],
     [file_bytes |-> [open |-> "ok", pages_ok |-> TRUE,
                      pages |-> <<[raises |-> FALSE, text |-> <<"a", "a">>]>>],
      filename |-> "b.pdf", template_name |-> NoneValue, output_format |-> "json"]}

ConcReplies ==
    {r \in Replies :
        \/ r.raises
        \/ r.json_ok /\ r.tokens # NoneValue
           /\ r.value \in {JDict(<< <<"nombre", JStr("Ana")>> >>), JList(<< <<"", JNum(1)>> >>)}}

\* another invocation is between its start and its end
OthersInFlight(p) ==
    \E q \in Invocations \ {p} : inv_pc[q] \notin Terminal \cup {"Idle"}

Failed(e) == [ok |-> FALSE, result |-> NoResult, error |-> e]
Returned(r) == [ok |-> TRUE, result |-> r, error |-> NoError]

\* an invocation of process_file starts
ConcProcessFile(p, c) ==
    /\ inv_pc[p] = "Idle"
    /\ inv_pc' = [inv_pc EXCEPT ![p] = "Received"]
    /\ inv_call' = [inv_call EXCEPT ![p] = c]
    /\ overlapped' = (overlapped \/ OthersInFlight(p))
    /\ UNCHANGED <<inv_text, inv_structured, inv_request, inv_reply, inv_out>>
    /\ UNCHANGED <<orchestratorVars, output_dir, pdfVars, excelVars, aiVars, routeVars>>

\* if not self.pdf_service.validate_pdf(file_bytes): raise PDFProcessingError
ConcValidate(p) ==
    /\ inv_pc[p] = "Received"
    /\ IF validate_pdf(inv_call[p].file_bytes)
       THEN /\ inv_pc' = [inv_pc EXCEPT ![p] = "Validated"]
            /\ inv_out' = inv_out
       ELSE /\ inv_pc' = [inv_pc EXCEPT ![p] = "Failed"]
            /\ inv_out' = [inv_out EXCEPT
                              ![p] = Failed(PDFProcessingError("El archivo no es un PDF valido"))]
    /\ overlapped' = (overlapped \/ OthersInFlight(p))
    /\ UNCHANGED <<inv_call, inv_text, inv_structured, inv_request, inv_reply>>
    /\ UNCHANGED <<orchestratorVars, output_dir, pdfVars, excelVars, aiVars, routeVars>>

\* ConcExtractText keeping the text in an attribute of the shared Orchestrator
ConcExtractTextShared(p) ==
    /\ inv_pc[p] = "Validated"
    /\ LET r == extract_text_from_pdf(inv_call[p].file_bytes)
       IN  IF r.ok
           THEN /\ inv_text' = [q \in Invocations |-> r.text]
                /\ inv_pc' = [inv_pc EXCEPT ![p] = "TextExtracted"]
                /\ inv_out' = inv_out
           ELSE /\ inv_pc' = [inv_pc EXCEPT ![p] = "Failed"]
                /\ inv_out' = [inv_out EXCEPT ![p] = Failed(r.error)]
                /\ inv_text' = inv_text
    /\ overlapped' = (overlapped \/ OthersInFlight(p))
    /\ UNCHANGED <<inv_call, inv_structured, inv_request, inv_reply>>
    /\ UNCHANGED <<orchestratorVars, output_dir, pdfVars, excelVars, aiVars, routeVars>>

\* text = self.pdf_service.extract_text_from_pdf(file_bytes)
ConcExtractText(p) ==
    /\ inv_pc[p] = "Validated"
    /\ LET r == extract_text_from_pdf(inv_call[p].file_bytes)
       IN  IF r.ok
           THEN /\ inv_text' = [inv_text EXCEPT ![p] = r.text]
                /\ inv_pc' = [inv_pc EXCEPT ![p] = "TextExtracted"]
                /\ inv_out' = inv_out
           ELSE /\ inv_pc' = [inv_pc EXCEPT ![p] = "Failed"]
                /\ inv_out' = [inv_out EXCEPT ![p] = Failed(r.error)]
                /\ inv_text' = inv_text
    /\ overlapped' = (overlapped \/ OthersInFlight(p))
    /\ UNCHANGED <<inv_call, inv_structured, inv_request, inv_reply>>
    /\ UNCHANGED <<orchestratorVars, output_dir, pdfVars, excelVars, aiVars, routeVars>>

\* structured = self.openai_service.extract_structured_data(text)
ConcExtractData(p) ==
    /\ inv_pc[p] = "TextExtracted"
    /\ inv_request' = [inv_request EXCEPT ![p] = Sent(inv_text[p])]
    /\ \E reply \in ConcReplies, processing_time \in 0..MaxElapsed :
          LET r == extract_structured_data(inv_text[p], reply, processing_time)
          IN  /\ inv_reply' = [inv_reply EXCEPT
                                  ![p] = [reply |-> reply, processing_time |-> processing_time]]
              /\ IF r.ok
                 THEN /\ inv_structured' = [inv_structured EXCEPT ![p] = r.data]
                      /\ inv_pc' = [inv_pc EXCEPT ![p] = "DataExtracted"]
                      /\ inv_out' = inv_out
                 ELSE /\ inv_pc' = [inv_pc EXCEPT ![p] = "Failed"]
                      /\ inv_out' = [inv_out EXCEPT ![p] = Failed(r.error)]
                      /\ inv_structured' = inv_structured
    /\ overlapped' = (overlapped \/ OthersInFlight(p))
    /\ UNCHANGED <<inv_call, inv_text>>
    /\ UNCHANGED <<orchestratorVars, output_dir, pdfVars, excelVars, aiVars, routeVars>>

\* processing_time, metadata and the returned dict
ConcComplete(p) ==
    /\ inv_pc[p] = "DataExtracted"
    /\ \E processing_time \in 0..MaxElapsed :
          inv_out' = [inv_out EXCEPT
                         ![p] = Returned([keys |-> {"data", "metadata"},
                                          data |-> inv_structured[p],
                                          excel_path |-> NoneValue,
                                          metadata |-> [processing_time |-> processing_time,
                                                        filename |-> inv_call[p].filename]])]
    /\ inv_pc' = [inv_pc EXCEPT ![p] = "Completed"]
    /\ overlapped' = (overlapped \/ OthersInFlight(p))
    /\ UNCHANGED <<inv_call, inv_text, inv_structured, inv_request, inv_reply>>
    /\ UNCHANGED <<orchestratorVars, output_dir, pdfVars, excelVars, aiVars, routeVars>>

InitConcurrent ==
    /\ InitOrchestrator
    /\ InitExcel
    /\ pdf_content = NoCall.file_bytes
    /\ pdf_valid = "unknown"
    /\ pdf_text = Pending
    /\ InitOpenAIIdle
    /\ InitRoutesIdle
    /\ InitInvocationsIdle

NextConcurrent ==
    \E p \in Invocations :
        \/ \E c \in ConcCalls : ConcProcessFile(p, c)
        \/ ConcValidate(p)
        \/ ConcExtractText(p)
        \/ ConcExtractData(p)
        \/ ConcComplete(p)

SpecConcurrent == InitConcurrent /\ [][NextConcurrent]_vars

\* ================================================================ claims
InFlight == pc \notin Terminal \cup {"Idle"}

\* C1: when validate_pdf returns False for the input, process_file fails with
\* PDFProcessingError and neither extract_text_from_pdf nor
\* extract_structured_data is invoked at any point of the call.
C1_InvalidPdfFailsFast ==
    (pc # "Idle" /\ ~validate_pdf(call.file_bytes)) =>
        /\ invoked.extract_text_from_pdf = 0
        /\ invoked.extract_structured_data = 0
        /\ pc \in {"Received", "Failed"}
        /\ pc = "Failed" => error.kind = "PDFProcessingError"

C1_Witness ==
    /\ pc = "Failed"
    /\ ~validate_pdf(call.file_bytes)
    /\ invoked.validate_pdf = 1
    /\ error.kind = "PDFProcessingError"

StageSuccessors ==
    { <<"Received", "Validated">>, <<"Validated", "TextExtracted">>,
      <<"TextExtracted", "DataExtracted">>, <<"DataExtracted", "ReportRendered">>,
      <<"DataExtracted", "Completed">>, <<"ReportRendered", "Completed">> }

NoStageTwice(h) == \A i, j \in DOMAIN h : h[i] = h[j] => i = j

\* C2: within one process_file call the stages are entered in the order
\* Received, Validated, TextExtracted, DataExtracted, [ReportRendered],
\* Completed, each at most once; the only other transition of a non-terminal
\* stage is to Failed, and nothing leaves Completed or Failed.
C2_StageOrder ==
    [][ /\ started' # started => pc' = "Received"
        /\ (started' = started /\ pc' # pc) =>
              /\ pc \notin Terminal
              /\ pc' = "Failed" \/ <<pc, pc'>> \in StageSuccessors
        /\ NoStageTwice(stages') ]_vars

C2_Witness ==
    /\ pc = "Completed"
    /\ stages = <<"Received", "Validated", "TextExtracted", "DataExtracted", "Completed">>

\* C3: a process_file call makes at most one extraction-service request,
\* exactly one when it completes; no service method is invoked twice in a
\* call (no retry); and when every call so far has completed, the number of
\* requests equals the number of calls, identical inputs included (no cache).
C3_OneRequestPerCall ==
    /\ invoked.validate_pdf <= 1
    /\ invoked.extract_text_from_pdf <= 1
    /\ invoked.extract_structured_data <= 1
    /\ pc = "Completed" => invoked.extract_structured_data = 1
    /\ completed <= requests
    /\ (pc \in Terminal /\ completed = started) => requests = completed

C3_Witness ==
    /\ pc = "Completed"
    /\ identical
    /\ completed = 2
    /\ requests = 2

\* C4: with output_format 'excel' and all three earlier stages successful,
\* generate_excel_report is invoked exactly once and the returned result
\* carries the path of the rendered artifact.
C4_ExcelRendered ==
    (pc = "Completed" /\ call.output_format = "excel") =>
        /\ invoked.generate_excel_report = 1
        /\ "excel_path" \in result.keys
        /\ \E f \in output_dir : f.path = result.excel_path

\* C5: with output_format 'json' the renderer is never invoked, no file is
\* written to the output directory, and the returned result has no artifact
\* path, its data is the record of the extraction step and its
\* metadata.filename is the filename passed in.
C5_JsonNoArtifact ==
    [][ (pc' # "Idle" /\ call'.output_format = "json") =>
            /\ invoked'.generate_excel_report = 0
            /\ output_dir' = output_dir
            /\ pc' = "Completed" =>
                  /\ "excel_path" \notin result'.keys
                  /\ result'.excel_path = NoneValue
                  /\ "data" \in result'.keys
                  /\ result'.data = structured'
                  /\ structured'.type = "dict"
                  /\ result'.metadata.filename = call'.filename ]_vars

C5_Witness ==
    /\ pc = "Completed"
    /\ call.output_format = "json"
    /\ call.filename = "doc.pdf"
    /\ result.metadata.filename = "doc.pdf"
    /\ "nombre" \in Keys(result.data)

MissingTemplate(t) == t \notin {NoneValue, ""} /\ t \notin DOMAIN templates_dir

\* C6: generate_excel_report with a template_name that has no file in the
\* templates directory fails with TemplateNotFoundError and writes no file
\* to the output directory.
C6_TemplateNotFound ==
    [][ (renders' = renders + 1 /\ MissingTemplate(excel_args'.template_name)) =>
            /\ ~excel_out'.ok
            /\ excel_out'.error.kind = "TemplateNotFoundError"
            /\ output_dir' = output_dir ]_vars

\* C7: the Orchestrator passes a stage error on unchanged: when
\* extract_text_from_pdf raises, process_file fails with that same error and
\* the extraction service is not called; when extract_structured_data
\* raises, process_file fails with that same error; no result is returned.
C7_ErrorsPropagateUnchanged ==
    /\ raised # NoError =>
          /\ pc = "Failed"
          /\ error = raised
          /\ result = NoResult
          /\ raised.kind = "PDFProcessingError" => invoked.extract_structured_data = 0
    /\ (pc = "Failed" /\ invoked.extract_text_from_pdf = 1) =>
          /\ raised # NoError
          /\ error.kind = IF invoked.extract_structured_data = 1
                          THEN "OpenAIError" ELSE "PDFProcessingError"

C7_Witness ==
    /\ pc = "Failed"
    /\ raised.kind = "OpenAIError"
    /\ error = raised
    /\ invoked.extract_structured_data = 1

Readable(d) == d.open = "ok" /\ d.pages_ok
IsBlank(t) == \A i \in DOMAIN t : t[i] \in Whitespace
Yields(page) == ~page.raises /\ page.text # <<>>
YieldsVisible(page) == ~page.raises /\ ~IsBlank(page.text)
PdfDone == pdf_text # Pending

\* C8: extract_text_from_pdf fails with PDFProcessingError for every document
\* all of whose pages yield only whitespace text, non-empty whitespace
\* included.
C8_BlankDocumentRejected ==
    ( /\ PdfDone
      /\ Readable(pdf_content)
      /\ Len(pdf_content.pages) >= 1
      /\ \A i \in DOMAIN pdf_content.pages :
            ~pdf_content.pages[i].raises /\ IsBlank(pdf_content.pages[i].text) )
    => (~pdf_text.ok /\ pdf_text.error.kind = "PDFProcessingError")

\* C9: extract_text_from_pdf fails with PDFProcessingError for a document
\* that opens with zero pages, and returns a non-empty trimmed string for
\* every openable document with a page whose text has a non-whitespace
\* character.
C9_ZeroPagesFailVisibleTextSucceeds ==
    (PdfDone /\ Readable(pdf_content)) =>
        /\ Len(pdf_content.pages) = 0 =>
              (~pdf_text.ok /\ pdf_text.error.kind = "PDFProcessingError")
        /\ (\E i \in DOMAIN pdf_content.pages : YieldsVisible(pdf_content.pages[i])) =>
              /\ pdf_text.ok
              /\ pdf_text.text # <<>>
              /\ pdf_text.text[1] \notin Whitespace
              /\ pdf_text.text[Len(pdf_text.text)] \notin Whitespace

C9_Witness ==
    /\ PdfDone
    /\ pdf_text.ok
    /\ Len(pdf_content.pages) = 2
    /\ YieldsVisible(pdf_content.pages[2])
    /\ ~pdf_content.pages[1].raises
    /\ IsBlank(pdf_content.pages[1].text)

PageTokens == {PageToken(n) : n \in 1..5}
TokenPage(t) == CHOOSE n \in 1..5 : PageToken(n) = t
MarkerPositions(out) == {i \in DOMAIN out : out[i] \in PageTokens}

\* x is full without its trailing whitespace
IsRightTrimOf(x, full) ==
    /\ Len(x) <= Len(full)
    /\ x = SubSeq(full, 1, Len(x))
    /\ \A i \in (Len(x) + 1)..Len(full) : full[i] \in Whitespace
    /\ x # <<>> => x[Len(x)] \notin Whitespace

\* the output holds, for each marker, the text of the marker's page up to the
\* next marker (the last one up to the trimmed end)
SegmentsMatch(out, pages) ==
    \A i \in MarkerPositions(out) :
        LET n == TokenPage(out[i])
            later == {j \in MarkerPositions(out) : j > i}
        IN  IF later = {}
            THEN IsRightTrimOf(SubSeq(out, i, Len(out)),
                               <<PageToken(n), "\n">> \o pages[n].text)
            ELSE LET j == CHOOSE k \in later : \A m \in later : k <= m
                 IN  SubSeq(out, i + 1, j - 1) = <<"\n">> \o pages[n].text \o <<"\n">>

\* C10: when text extraction raises on some pages the call still succeeds if
\* a page yields text; the output holds the text of exactly the pages that
\* yielded text, in ascending page order, each after a marker with that
\* page's 1-based index, and nothing for a failing page.
C10_FailingPagesSkipped ==
    (PdfDone /\ Readable(pdf_content)) =>
        LET pages == pdf_content.pages
            out == pdf_text.text
            yielding == {n \in DOMAIN pages : Yields(pages[n])}
        IN  /\ (\E n \in DOMAIN pages : YieldsVisible(pages[n])) => pdf_text.ok
            /\ pdf_text.ok =>
                  /\ out[1] \in PageTokens
                  /\ {TokenPage(out[i]) : i \in MarkerPositions(out)} = yielding
                  /\ Cardinality(MarkerPositions(out)) = Cardinality(yielding)
                  /\ \A i, j \in MarkerPositions(out) :
                        i < j => TokenPage(out[i]) < TokenPage(out[j])
                  /\ SegmentsMatch(out, pages)

C10_Witness ==
    /\ PdfDone
    /\ pdf_text.ok
    /\ Len(pdf_content.pages) = 2
    /\ pdf_content.pages[1].raises
    /\ pdf_content.pages[2].text = <<"a">>
    /\ pdf_text.text = <<"P2", "\n", "a">>

\* C11: every value a successful extract_structured_data returns is a
\* mapping with one '_metadata' entry made by the extractor (whatever
\* '_metadata' the model sent is replaced) that holds a numeric
\* processing_time >= 0 and the model identifier.
C11_RecordShape ==
    (ai_pc = "done" /\ ai_out.ok) =>
        /\ ai_out.data.type = "dict"
        /\ Cardinality({i \in DOMAIN ai_out.data.items :
                            ai_out.data.items[i][1] = "_metadata"}) = 1
        /\ LET m == GetItem(ai_out.data, "_metadata")
           IN  /\ m.type = "dict"
               /\ {"processing_time", "model_used"} \subseteq Keys(m)
               /\ GetItem(m, "processing_time").type = "num"
               /\ GetItem(m, "processing_time").num >= 0
               /\ GetItem(m, "model_used") = JStr(openai_model)
        /\ \A k \in Keys(ai_reply.value) \ {"_metadata"} :
              /\ k \in Keys(ai_out.data)
              /\ GetItem(ai_out.data, k) = GetItem(ai_reply.value, k)

C11_Witness ==
    /\ ai_pc = "done"
    /\ ai_out.ok
    /\ "_metadata" \in Keys(ai_reply.value)
    /\ GetItem(ai_reply.value, "_metadata") = JStr("fake")
    /\ GetItem(ai_out.data, "_metadata").type = "dict"

\* C12: when the content of the reply is not JSON, or its root is not a
\* mapping, extract_structured_data fails with OpenAIError and returns no
\* record; a failed network call fails with the same error kind.
C12_BadReplyIsOpenAIError ==
    (ai_pc = "done" /\ (ai_reply.raises \/ ~ai_reply.json_ok \/ ai_reply.value.type # "dict")) =>
        /\ ~ai_out.ok
        /\ ai_out.data = JNull
        /\ ai_out.error.kind = "OpenAIError"

C12_Witness ==
    /\ ai_pc = "done"
    /\ ~ai_reply.raises
    /\ ai_reply.json_ok
    /\ ai_reply.value.type = "list"
    /\ ai_out.error.kind = "OpenAIError"

RenderDone == renders > 0 /\ excel_out.ok

\* the workbook the last call started from
BaseWorkbook ==
    IF excel_args.template_name \in {NoneValue, ""}
    THEN _create_default_workbook
    ELSE templates_dir[excel_args.template_name].workbook

\* the workbook the last call saved
SavedWorkbook == (CHOOSE f \in output_dir : f.path = excel_out.path).workbook

\* the cells of sheet n the call wrote (new, or with another value)
Changed(n) ==
    {p \in DOMAIN SavedWorkbook.sheets[n] :
        \/ p \notin DOMAIN BaseWorkbook.sheets[n]
        \/ SavedWorkbook.sheets[n][p] # BaseWorkbook.sheets[n][p]}

SheetNames == {SavedWorkbook.sheetnames[i] : i \in DOMAIN SavedWorkbook.sheetnames}

IsScalar(v) == v.type \in {"null", "str", "num"}

\* values are scalars, one-level mappings of scalars and lists of scalars
IsShallow(data) ==
    \A i \in DOMAIN data.items :
        LET v == data.items[i][2]
        IN  \/ IsScalar(v)
            \/ /\ v.type \in {"dict", "list"}
               /\ \A j \in DOMAIN v.items : IsScalar(v.items[j][2])

\* the rows of one shallow entry: 'key', 'parent.child' or 'parent[i]'
RECURSIVE ChildRows(_, _, _, _)
ChildRows(parent, v, j, acc) ==
    IF j > Len(v.items) THEN acc
    ELSE ChildRows(parent, v, j + 1,
             Append(acc,
                 [key |-> IF v.type = "dict"
                          THEN parent \o "." \o v.items[j][1]
                          ELSE parent \o "[" \o ToString(j - 1) \o "]",
                  value |-> PyStr(v.items[j][2])]))

\* the rows the flattening rule gives for a shallow record: every key but
\* '_metadata', in record order
RECURSIVE ShallowRows(_, _, _)
ShallowRows(data, i, acc) ==
    IF i > Len(data.items) THEN acc
    ELSE LET k == data.items[i][1]
             v == data.items[i][2]
         IN  ShallowRows(data, i + 1,
                 IF k = "_metadata" THEN acc
                 ELSE IF IsScalar(v) THEN Append(acc, [key |-> k, value |-> PyStr(v)])
                 ELSE ChildRows(k, v, 1, acc))

\* sheet ws holds exactly the rows from row first on, in columns 1 and 2
HoldsRowsFrom(ws, first, rows) ==
    /\ {p[1] : p \in {q \in DOMAIN ws : q[2] = 1 /\ q[1] >= first}}
          = first..(first + Len(rows) - 1)
    /\ \A k \in DOMAIN rows :
          /\ ws[<<first + k - 1, 1>>] = rows[k].key
          /\ ws[<<first + k - 1, 2>>] = rows[k].value

\* C15: for a record of scalars, one-level mappings of scalars and lists of
\* scalars the sheet gets, on consecutive rows and in record order, one row
\* per scalar key, per nested entry ('parent.child') and per list element
\* ('parent[i]'), and none for '_metadata'.
C15_ShallowRecordRows ==
    (RenderDone /\ IsShallow(excel_args.data)) =>
        \E n \in SheetNames, first \in 1..2 :
            HoldsRowsFrom(SavedWorkbook.sheets[n], first, ShallowRows(excel_args.data, 1, <<>>))

\* the leaves under a mapping, with their dotted paths
RECURSIVE Leaves(_, _)
Leaves(prefix, v) ==
    UNION { IF v.items[j][2].type = "dict"
            THEN Leaves(prefix \o "." \o v.items[j][1], v.items[j][2])
            ELSE {[key |-> prefix \o "." \o v.items[j][1], value |-> PyStr(v.items[j][2])]}
            : j \in DOMAIN v.items }

\* C16: a nested mapping of any depth gives one row per leaf, keyed by the
\* dotted path: {p: {q: {r: 1}}} gives the row 'p.q.r' with value '1'.
C16_DeepNestingFlattened ==
    RenderDone =>
        \A i \in DOMAIN excel_args.data.items :
            LET k == excel_args.data.items[i][1]
                v == excel_args.data.items[i][2]
            IN  (v.type = "dict" /\ ~startswith_underscore(k)) =>
                    \A leaf \in Leaves(k, v) :
                        \E n \in SheetNames, row \in 1..10 :
                            /\ <<row, 1>> \in DOMAIN SavedWorkbook.sheets[n]
                            /\ SavedWorkbook.sheets[n][<<row, 1>>] = leaf.key
                            /\ SavedWorkbook.sheets[n][<<row, 2>>] = leaf.value

\* the '_metadata' entry of the record handed in, when it is a non-empty mapping
HasMetadata(data) ==
    /\ "_metadata" \in Keys(data)
    /\ GetItem(data, "_metadata").type = "dict"
    /\ GetItem(data, "_metadata").items # <<>>

\* C17: in every sheet written, metadata goes only into columns 5 and 6 and
\* domain rows only into columns 1 to 3; no metadata shows among the domain
\* rows, and without a (non-empty) '_metadata' entry no metadata cell is
\* written.
C17_MetadataSideRegion ==
    RenderDone =>
        \A n \in SheetNames :
            LET data == excel_args.data
                side == {p \in Changed(n) : p[2] \in {5, 6}}
            IN  /\ \A p \in Changed(n) : p[2] \in {1, 2, 3, 5, 6}
                /\ \A p \in Changed(n) :
                      p[2] \in {1, 2, 3} => SavedWorkbook.sheets[n][p] # "Metadatos del Procesamiento"
                /\ \A p \in Changed(n) :
                      p[2] = 1 => SavedWorkbook.sheets[n][p] # "_metadata"
                /\ ~HasMetadata(data) => side = {}
                /\ (HasMetadata(data) /\ side # {}) =>
                      LET m == GetItem(data, "_metadata")
                      IN  /\ side = {<<1, 5>>}
                                    \cup {<<j + 1, 5>> : j \in DOMAIN m.items}
                                    \cup {<<j + 1, 6>> : j \in DOMAIN m.items}
                          /\ \A j \in DOMAIN m.items :
                                /\ SavedWorkbook.sheets[n][<<j + 1, 5>>] = m.items[j][1]
                                /\ SavedWorkbook.sheets[n][<<j + 1, 6>>] = PyStr(m.items[j][2])
                /\ HasMetadata(data) =>
                      \E t \in SheetNames : <<1, 5>> \in Changed(t)

C17_Witness ==
    /\ RenderDone
    /\ HasMetadata(excel_args.data)
    /\ excel_args.template_name = "datos"
    /\ <<1, 5>> \in Changed("Datos")
    /\ <<2, 1>> \in Changed("Datos")

\* C18: two successful generate_excel_report calls of one process never write
\* the same output path, so no call replaces the artifact of another.
C18_DistinctPaths ==
    [][ (renders' = renders + 1 /\ excel_out'.ok) =>
            \A f \in output_dir : f.path # excel_out'.path ]_vars

\* the upload and the environment of the cases a route is meant to serve
PassesValidation(file) ==
    /\ validate_file(file) = NoError
    /\ validate_pdf(file.content)

GoodReply(reply) == ~reply.raises /\ reply.json_ok /\ reply.value.type = "dict"

\* C14: an upload that passes validate_file and validate_pdf, whose text is
\* extracted and for which the extraction service answers a record, is
\* answered by POST /extract-personal-data with 200 and a data object of
\* exactly the nine personal fields, null where the record lacks one.
C14_PersonalDataAnswered ==
    ( /\ route_req.endpoint = "extract-personal-data"
      /\ PassesValidation(route_req.upload)
      /\ extract_text_from_pdf(route_req.upload.content).ok
      /\ GoodReply(route_req.reply) ) =>
        /\ route_resp.status_code = 200
        /\ route_resp.body.type = "dict"
        /\ Len(route_resp.body.items) = 9
        /\ Keys(route_resp.body) = {PersonalFields[i] : i \in DOMAIN PersonalFields}
        /\ \A i \in DOMAIN route_resp.body.items :
              route_resp.body.items[i][2] =
                  IF route_resp.body.items[i][1] \in Keys(route_req.reply.value)
                  THEN GetItem(route_req.reply.value, route_resp.body.items[i][1])
                  ELSE JNull

\* C20: GET /download-excel/{filename} answers 404 when output/<filename>
\* does not exist, and the file only when it exists.
C20_MissingFileIs404 ==
    route_req.endpoint = "download-excel" =>
        IF Exists(output_dir, "output/" \o route_req.filename)
        THEN route_resp.status_code = 200
             /\ route_resp.body = JStr("output/" \o route_req.filename)
        ELSE route_resp.status_code = 404

\* what one process_file call on its own gives for arguments c, the reply
\* its request receives and the time that request takes
SequentialOutcome(c, received) ==
    IF ~validate_pdf(c.file_bytes)
    THEN [ok |-> FALSE, error |-> PDFProcessingError("El archivo no es un PDF valido"),
          data |-> JNull, filename |-> NoneValue]
    ELSE LET t == extract_text_from_pdf(c.file_bytes)
         IN  IF ~t.ok
             THEN [ok |-> FALSE, error |-> t.error, data |-> JNull, filename |-> NoneValue]
             ELSE LET r == extract_structured_data(t.text, received.reply,
                                                   received.processing_time)
                  IN  IF ~r.ok
                      THEN [ok |-> FALSE, error |-> r.error, data |-> JNull,
                            filename |-> NoneValue]
                      ELSE [ok |-> TRUE, error |-> NoError, data |-> r.data,
                            filename |-> c.filename]

\* C19: under every interleaving of process_file invocations on the one
\* Orchestrator, each invocation sends the text of its own bytes to the
\* extraction service, and its outcome (data, metadata.filename, or error) is
\* the one a call on its own gives for its own bytes, filename and reply.
C19_InvocationsIndependent ==
    \A p \in Invocations :
        /\ inv_request[p].sent =>
              inv_request[p].text = extract_text_from_pdf(inv_call[p].file_bytes).text
        /\ inv_pc[p] \in Terminal =>
              LET alone == SequentialOutcome(inv_call[p], inv_reply[p])
              IN  /\ inv_out[p].ok = alone.ok
                  /\ inv_out[p].ok = (inv_pc[p] = "Completed")
                  /\ inv_out[p].error = alone.error
                  /\ inv_out[p].ok =>
                        /\ inv_out[p].result.data = alone.data
                        /\ inv_out[p].result.metadata.filename = alone.filename

C19_Witness ==
    /\ overlapped
    /\ \E p, q \in Invocations :
          /\ p # q
          /\ inv_pc[p] = "Completed"
          /\ inv_pc[q] = "Completed"
          /\ inv_call[p].filename # inv_call[q].filename
          /\ inv_request[p].text # inv_request[q].text

\* the endpoints that take a PDF upload
PdfEndpoints == {"upload-pdf", "extract-data", "extract-personal-data"}

\* C21: in upload-pdf, extract-data and extract-personal-data an upload that
\* passes validate_file but fails validate_pdf is answered with 400 'El
\* archivo no es un PDF valido', and no text extraction, extraction-service
\* call or file saving is made for it.
C21_InvalidPdfIs400 ==
    ( /\ route_req.endpoint \in PdfEndpoints
      /\ validate_file(route_req.upload) = NoError
      /\ ~validate_pdf(route_req.upload.content) ) =>
        /\ route_resp.status_code = 400
        /\ route_resp.detail = "El archivo no es un PDF valido"
        /\ route_calls \cap {"extract_text_from_pdf", "extract_personal_data",
                             "save_uploaded_file", "generate_excel_report"} = {}

\* the fixed messages of the internal-failure responses
GenericMessages ==
    {"Error interno del servidor", "Error descargando archivo", "Error listando plantillas"}

\* the response carries the text m
Carries(resp, m) ==
    \/ resp.detail = m
    \/ \E i \in DOMAIN resp.body.items : resp.body.items[i][2] = JStr(m)

\* C22: an exception raised in a handler that is not one of the application's
\* own error kinds is answered with a 500 response whose message is a fixed
\* generic one, and its text appears nowhere in the response.
C22_UnexpectedIsGeneric500 ==
    (route_exc # NoError /\ route_exc.kind \notin CertiflowExceptions) =>
        /\ route_resp.status_code = 500
        /\ route_resp.detail \in GenericMessages
        /\ ~Carries(route_resp, route_exc.message)

\* C24: GET /health answers 200 with status 'healthy', a services map and a
\* timestamp, whatever was requested before and whatever the output
\* directory holds.
C24_HealthAlwaysHealthy ==
    route_req.endpoint = "health" =>
        /\ route_resp.status_code = 200
        /\ route_resp.body.type = "dict"
        /\ {"status", "services", "timestamp"} \subseteq Keys(route_resp.body)
        /\ GetItem(route_resp.body, "status") = JStr("healthy")
        /\ GetItem(route_resp.body, "services").type = "dict"

C24_Witness ==
    /\ route_req.endpoint = "health"
    /\ route_errors
    /\ output_dir # {}
    /\ route_resp.status_code = 200

\* C23: validate_pdf never raises: for every input (bytes that are no PDF,
\* that make the reader fail otherwise, or an encrypted file) it returns True
\* or False, and False exactly when opening the bytes as a PDF fails.
C23_ValidateNeverRaises ==
    pdf_valid # "unknown" =>
        /\ pdf_valid \in {"True", "False"}
        /\ (pdf_valid = "False") = (pdf_content.open # "ok")

C23_Witness ==
    /\ pdf_valid = "False"
    /\ pdf_content.open = "Exception"

\* the keys of the rows one top-level entry gives
RowKeys(k, v) ==
    IF IsScalar(v) THEN {k}
    ELSE {ChildRows(k, v, 1, <<>>)[j].key : j \in DOMAIN v.items}

\* C25: flattening skips '_metadata' and only that key: every other top-level
\* key, one beginning with an underscore such as '_id' included, gives at
\* least one data row, and exactly one when its value is a scalar.
C25_OnlyMetadataSkipped ==
    RenderDone =>
        \A i \in DOMAIN excel_args.data.items :
            LET k == excel_args.data.items[i][1]
                v == excel_args.data.items[i][2]
            IN  \A n \in SheetNames :
                    LET ws == SavedWorkbook.sheets[n]
                        rows == {p \in DOMAIN ws : p[2] = 1 /\ ws[p] \in RowKeys(k, v)}
                    IN  IF k = "_metadata"
                        THEN ~\E p \in DOMAIN ws : p[2] = 1 /\ ws[p] = "_metadata"
                        ELSE (n = TargetSheet(SavedWorkbook) /\ (IsScalar(v) \/ v.items # <<>>)) =>
                                 /\ rows # {}
                                 /\ IsScalar(v) => Cardinality(rows) = 1

\* C26: data rows start on the first row after a header row already in the
\* target sheet and go on consecutive rows, so the header row stays as it
\* was, whatever its first cell says.
C26_HeaderRowKept ==
    RenderDone =>
        \A n \in SheetNames :
            LET base == BaseWorkbook.sheets[n]
                ws == SavedWorkbook.sheets[n]
                first == IF <<1, 1>> \in DOMAIN base THEN 2 ELSE 1
                rows == {p[1] : p \in {q \in Changed(n) : q[2] = 1}}
            IN  /\ \A p \in DOMAIN base : p[1] < first /\ p[2] \in 1..3 => ws[p] = base[p]
                /\ rows = first..(first + Cardinality(rows) - 1)

ServiceErrors == {"PDFProcessingError", "OpenAIError"}

\* C27: every failure of process_file is a PDFProcessingError or an
\* OpenAIError: extract_text_from_pdf turns every exception raised inside it,
\* its own PDFProcessingError for zero pages or no text included, into a
\* PDFProcessingError, extract_structured_data turns every exception raised
\* inside it into an OpenAIError, and nothing else escapes either service.
C27_ErrorClosure ==
    /\ pc = "Failed" => error.kind \in ServiceErrors
    /\ raised # NoError => raised.kind \in ServiceErrors
    /\ \A d \in CallDocuments :
          ~extract_text_from_pdf(d).ok =>
              extract_text_from_pdf(d).error.kind = "PDFProcessingError"
    /\ \A reply \in Replies :
          ~extract_structured_data(text, reply, 0).ok =>
              extract_structured_data(text, reply, 0).error.kind = "OpenAIError"

C27_Witness ==
    /\ pc = "Failed"
    /\ call.file_bytes = [open |-> "ok", pages_ok |-> TRUE, pages |-> <<>>]
    /\ invoked.extract_text_from_pdf = 1
    /\ error = PDFProcessingError("Error procesando PDF: El PDF no contiene paginas")

====
